---- MODULE Spec2Model ----
(***************************************************************************)
(* clay_bar: a single-row X11 status bar built on the Clay layout library. *)
(* The model follows src/clay_bar.c (Cairo variant, lines 1-504) and the   *)
(* Pango variant embedded in src/build_clay_bar.sh (lines 245-842).        *)
(*                                                                         *)
(* Coordinates are C floats in the source; here every coordinate is an     *)
(* integer number of tenths of a pixel (PxUnits), which represents every   *)
(* value the layout produces exactly (text width is 6.6 px per character). *)
(* C strings are sequences of one-character strings; NUL is the terminator.*)
(***************************************************************************)
EXTENDS Integers, Sequences, FiniteSets, TLC

VARIABLES
    variant,        \* which main() is running: "cairo" or "pango"
    ptr_size,       \* sizeof(char *) of the build: 4 or 8
    dropdown_open,  \* static int dropdown_open
    screen_w,       \* static int screen_w
    timebuf,        \* static char timebuf[64]
    statusbuf,      \* static char statusbuf[512]
    frame,          \* Clay's output of the last render: element boxes and commands
    launched,       \* every spawn_cmd call made so far: <<argv, fork result>>
    last,           \* the event handled last, with what its handler did
    surface,        \* the cairo operations of the last frame cycle, in order
    pending,        \* the number of events waiting in the X queue (XPending)
    pc,             \* where main's loop is: "poll", "timer" or "sleep"
    due,            \* more than 0.5 s have elapsed since last_time
    children,       \* the processes fork created in spawn_cmd, by pid
    forked,         \* what fork returned to the parent inside spawn_cmd
    measured,       \* the last call of measure_text_fn and the one before it
    fetched,        \* what XGetWMName gave in the last update_root_status
    held,           \* the allocations not released yet (followed in AllocSpec)
    mask,           \* the last call of create_mask_from_a8 (shaped clock)
    shaped          \* the shaped clock: its text, window, surface and queue

vars == <<variant, ptr_size, dropdown_open, screen_w, timebuf, statusbuf,
          frame, launched, last, surface, pending, pc, due, children, forked,
          measured, fetched, held, mask, shaped>>

\* the variables of the loop, which the handlers do not touch
loop_vars == <<pending, pc, due>>

\* the variables of the specifications of single functions; the bar's
\* handlers do not touch them
spawn_vars == <<children, forked>>
call_vars == <<spawn_vars, measured, fetched, held, mask, shaped>>

\* the variables of the bar without launched, and without the loop's
still_vars == <<variant, ptr_size, dropdown_open, screen_w, timebuf, statusbuf,
                frame, last, surface>>

-----------------------------------------------------------------------------
(* Bounds of the model *)

\* spawn_cmd calls recorded in launched
MaxLaunches == 2

\* allocations AllocSpec lets the bar hold
MaxHeld == 3

\* events the X queue holds at most
MaxPending == 1

\* events the shaped clock's queue holds at most
MaxClockQueue == 4

-----------------------------------------------------------------------------
(* Program constants *)

BAR_HEIGHT == 26
STATUSBUF_SIZE == 512
PxUnits == 10

NUL == "NUL"

Px(n) == n * PxUnits

-----------------------------------------------------------------------------
(* String literals of the source, as character sequences *)

S_root == <<"r","o","o","t">>
S_left == <<"l","e","f","t">>
S_menu_toggle == <<"m","e","n","u","_","t","o","g","g","l","e">>
S_time_text == <<"t","i","m","e","_","t","e","x","t">>
S_center == <<"c","e","n","t","e","r">>
S_dropdown == <<"d","r","o","p","d","o","w","n">>
S_item1 == <<"i","t","e","m","1">>
S_item2 == <<"i","t","e","m","2">>
S_Menu == <<"M","e","n","u">>
S_Open_xterm == <<"O","p","e","n"," ","x","t","e","r","m">>
S_Show_files == <<"S","h","o","w"," ","f","i","l","e","s"," ","(","x","d","g",
                  "-","o","p","e","n"," ",".",")">>

(* The bytes a pointer-typed expression can read after the literal's own    *)
(* terminator: whatever the linker placed next.                             *)
JunkBytes == {NUL, "i", "%"}

-----------------------------------------------------------------------------
(* CLAY_STRING(s): { .length = sizeof(s) - 1, .chars = s }.                 *)
(* For a string literal sizeof is the array size, so the slice is the       *)
(* literal. For an expression of pointer type (id_str, or a buffer cast to  *)
(* const char pointer) sizeof is the size of a pointer, so the slice is the *)
(* first ptr-1 bytes found at the address.                                  *)

CLAY_STRING_literal(lit) == lit

CLAY_STRING_pointer(mem, ptr) ==
    [i \in 1..(ptr - 1) |-> IF i <= Len(mem) THEN mem[i] ELSE NUL]

\* bytes stored at a literal's address: the literal, its terminator, then
\* whatever follows it in the read-only data
LiteralMemory(lit, junk) == lit \o <<NUL>> \o [i \in 1..8 |-> junk]

(* CLAY_ID(label): the element id hashed from CLAY_STRING(label). The hash  *)
(* is a function of the slice's bytes alone, so an id is represented by the *)
(* slice it was hashed from.                                                *)
CLAY_ID_literal(lit) == CLAY_STRING_literal(lit)

CLAY_ID_pointer(lit, ptr, junk) == CLAY_STRING_pointer(LiteralMemory(lit, junk), ptr)

-----------------------------------------------------------------------------
(* measure_text_fn: width = length * (fontSize * 0.55) + letterSpacing,     *)
(* height = fontSize; in tenths of a pixel.                                 *)

\* an estimate that gets narrower as the text gets longer
measure_text_fn_shrinking(slice, fontSize, letterSpacing) ==
    [width  |-> ((100 - Len(slice)) * fontSize * 55) \div 10 + Px(letterSpacing),
     height |-> Px(fontSize)]

measure_text_fn(slice, fontSize, letterSpacing) ==
    [width  |-> (Len(slice) * fontSize * 55) \div 10 + Px(letterSpacing),
     height |-> Px(fontSize)]

(* The cfg argument: the text configuration of the element, or NULL. The    *)
(* bar declares its texts with fontSize 12 and letterSpacing 0.             *)
NoConfig == [given |-> FALSE, fontSize |-> 0, letterSpacing |-> 0]
BarTextConfig == [given |-> TRUE, fontSize |-> 12, letterSpacing |-> 0]
TextConfigs == {NoConfig, BarTextConfig}

DefaultFontSize == 12

\* the Cairo variant's function with its cfg argument: font size 12 and no
\* letter spacing when cfg is NULL
measure_text_fn_cairo(slice, cfg) ==
    IF cfg.given THEN measure_text_fn(slice, cfg.fontSize, cfg.letterSpacing)
    ELSE measure_text_fn(slice, DefaultFontSize, 0)

\* a Pango function that gives an empty size when it cannot measure
measure_text_fn_pango_noFallback(slice, cfg, ctxOk, layoutOk, allocOk, pixel) ==
    IF ~ctxOk \/ ~layoutOk \/ ~allocOk
    THEN [width |-> 0, height |-> 0]
    ELSE [width |-> Px(pixel[1]), height |-> Px(pixel[2])]

(* The Pango variant's function: the estimate when there is no PangoContext *)
(* (userData is NULL), when pango_layout_new gives NULL or when malloc      *)
(* gives NULL; otherwise the pixel size Pango reports for the text.         *)
measure_text_fn_pango(slice, cfg, ctxOk, layoutOk, allocOk, pixel) ==
    IF ~ctxOk \/ ~layoutOk \/ ~allocOk
    THEN LET fs == IF cfg.given THEN cfg.fontSize ELSE DefaultFontSize
         IN [width |-> (Len(slice) * fs * 55) \div 10, height |-> Px(fs)]
    ELSE [width |-> Px(pixel[1]), height |-> Px(pixel[2])]

-----------------------------------------------------------------------------
(* The element tree render_clay_with_cairo declares between                 *)
(* Clay_BeginLayout and Clay_EndLayout, in declaration order. parent is an  *)
(* index into the sequence (0 for the root). Sizes are in tenths of a       *)
(* pixel, percentages in hundredths.                                        *)

Box(id, parent) ==
    [kind |-> "box", id |-> id, parent |-> parent,
     wT |-> "fixed", wV |-> 0, hT |-> "fixed", hV |-> 0,
     dir |-> "row", pad |-> 0, gap |-> 0, alignX |-> "start", alignY |-> "start",
     bg |-> FALSE, border |-> 0, floating |-> FALSE, offX |-> 0, offY |-> 0,
     zIndex |-> 0, text |-> <<>>, fontSize |-> 0, letterSpacing |-> 0]

Text(parent, slice) ==
    [Box(<<>>, parent) EXCEPT !.kind = "text", !.text = slice, !.fontSize = 12]

\* a left cluster ten pixels wider than the declared one
left_width_wider == 250 + 10

\* a clock box twenty pixels wider than the declared one
time_text_width_wider == 170 + 20

\* the fixed widths the builder declares for the left cluster and the clock box
left_width == 250
time_text_width == 170

BarTree(open, w, tbuf, sbuf, ptr) ==
    LET root == [Box(CLAY_ID_literal(S_root), 0) EXCEPT
                    !.wV = Px(w), !.hV = Px(BAR_HEIGHT), !.bg = TRUE]
        left == [Box(CLAY_ID_literal(S_left), 1) EXCEPT
                    !.wV = Px(left_width), !.hV = Px(BAR_HEIGHT),
                    !.gap = Px(6), !.pad = Px(6), !.bg = TRUE]
        menu_toggle == [Box(CLAY_ID_literal(S_menu_toggle), 2) EXCEPT
                    !.wV = Px(60), !.hV = Px(BAR_HEIGHT - 12),
                    !.bg = TRUE, !.border = Px(1)]
        time_text == [Box(CLAY_ID_literal(S_time_text), 2) EXCEPT
                    !.wV = Px(time_text_width), !.hV = Px(BAR_HEIGHT - 12)]
        center == [Box(CLAY_ID_literal(S_center), 1) EXCEPT
                    !.wT = "percent", !.wV = 100, !.hV = Px(BAR_HEIGHT),
                    !.alignX = "center", !.alignY = "center"]
        dropdown == [Box(CLAY_ID_literal(S_dropdown), 1) EXCEPT
                    !.floating = TRUE, !.offX = Px(6), !.offY = Px(BAR_HEIGHT),
                    !.zIndex = 100, !.bg = TRUE,
                    !.wV = Px(180), !.hV = Px(120),
                    !.pad = Px(6), !.gap = Px(6), !.dir = "col", !.border = Px(1)]
        item1 == [Box(CLAY_ID_literal(S_item1), 9) EXCEPT
                    !.wT = "grow", !.hV = Px(28)]
        item2 == [Box(CLAY_ID_literal(S_item2), 9) EXCEPT
                    !.wT = "grow", !.hV = Px(28)]
        bar == << root, left,
                  menu_toggle, Text(3, CLAY_STRING_literal(S_Menu)),
                  time_text, Text(5, CLAY_STRING_pointer(tbuf, ptr)),
                  center, Text(7, CLAY_STRING_pointer(sbuf, ptr)) >>
        menu == << dropdown,
                   item1, Text(10, CLAY_STRING_literal(S_Open_xterm)),
                   item2, Text(12, CLAY_STRING_literal(S_Show_files)) >>
    IN IF open THEN bar \o menu ELSE bar

-----------------------------------------------------------------------------
(* Clay_EndLayout: the layout resolver. Sizes are resolved per axis:        *)
(* fixed elements get their size, a percent element gets its fraction of    *)
(* what the siblings assigned before it leave of the parent's content, a    *)
(* grow element gets what is left over; nothing is negative. Children are   *)
(* placed along the parent's direction from the leading padding, separated  *)
(* by the gap; a floating element is placed at the root's top-left corner   *)
(* plus its offset and takes no space in the flow.                          *)

\* a resolver that lets a size go below zero
Max0_unclamped(n) == n

Max0(n) == IF n < 0 THEN 0 ELSE n

FlowKids(t, p) == {j \in 1..Len(t) : t[j].parent = p /\ ~t[j].floating}

SizingType(e, ax) ==
    IF e.kind = "text" THEN "fixed" ELSE IF ax = "x" THEN e.wT ELSE e.hT

Primary(e, ax) == (e.dir = "row") = (ax = "x")

AlignOffset(e, ax, free) ==
    LET a == IF ax = "x" THEN e.alignX ELSE e.alignY
    IN IF a = "center" THEN free \div 2 ELSE 0

RECURSIVE Size(_, _, _), SumSize(_, _, _)
Size(t, i, ax) ==
    LET e == t[i]
        v == IF ax = "x" THEN e.wV ELSE e.hV
        ty == SizingType(e, ax)
    IN IF e.kind = "text"
       THEN LET m == measure_text_fn(e.text, e.fontSize, e.letterSpacing)
            IN IF ax = "x" THEN m.width ELSE m.height
       ELSE IF ty = "fixed" \/ e.parent = 0 THEN Max0(v)
       ELSE LET p == e.parent
                content == Max0(Size(t, p, ax) - 2 * t[p].pad)
                kids == FlowKids(t, p)
                gaps == t[p].gap * (Cardinality(kids) - 1)
                before == {j \in kids : j < i /\ SizingType(t[j], ax) # "grow"}
                sized == {j \in kids : j # i /\ (SizingType(t[j], ax) # "grow" \/ j < i)}
            IN IF ~Primary(t[p], ax)
               THEN IF ty = "percent" THEN (v * content) \div 100 ELSE content
               ELSE IF ty = "percent"
                    THEN Max0((v * (content - SumSize(t, before, ax))) \div 100)
                    ELSE Max0(content - SumSize(t, sized, ax) - gaps)

SumSize(t, S, ax) ==
    IF S = {} THEN 0
    ELSE LET j == CHOOSE k \in S : TRUE
         IN Size(t, j, ax) + SumSize(t, S \ {j}, ax)

RECURSIVE Pos(_, _, _)
Pos(t, i, ax) ==
    LET e == t[i]
        p == e.parent
    IN IF p = 0 THEN 0
       ELSE IF e.floating THEN Pos(t, 1, ax) + (IF ax = "x" THEN e.offX ELSE e.offY)
       ELSE LET content == Max0(Size(t, p, ax) - 2 * t[p].pad)
                kids == FlowKids(t, p)
                gaps == t[p].gap * (Cardinality(kids) - 1)
                total == SumSize(t, kids, ax) + gaps
                earlier == {j \in kids : j < i}
            IN IF Primary(t[p], ax)
               THEN Pos(t, p, ax) + t[p].pad + AlignOffset(t[p], ax, content - total)
                    + SumSize(t, earlier, ax) + t[p].gap * Cardinality(earlier)
               ELSE Pos(t, p, ax) + t[p].pad
                    + AlignOffset(t[p], ax, content - Size(t, i, ax))

BoundingBox(t, i) ==
    [x |-> Pos(t, i, "x"), y |-> Pos(t, i, "y"),
     width |-> Size(t, i, "x"), height |-> Size(t, i, "y")]

-----------------------------------------------------------------------------
(* Clay_GetRenderCommands: the command emitter. Elements that are not part  *)
(* of a floating subtree are emitted in declaration (pre-) order, then the  *)
(* floating subtrees in ascending z-index; a container emits its rectangle  *)
(* and its border, a text leaf its text.                                    *)

RECURSIVE InFloating(_, _)
InFloating(t, i) ==
    IF i = 0 THEN FALSE ELSE t[i].floating \/ InFloating(t, t[i].parent)

RECURSIVE FloatRoot(_, _)
FloatRoot(t, i) == IF t[i].floating THEN i ELSE FloatRoot(t, t[i].parent)

CommandsOf(t, bb, i) ==
    LET e == t[i]
        c == [type |-> "NONE", el |-> i, id |-> e.id, boundingBox |-> bb[i],
              stringContents |-> <<>>, fontSize |-> 0]
    IN IF e.kind = "text"
       THEN << [c EXCEPT !.type = "TEXT", !.stringContents = e.text,
                         !.fontSize = e.fontSize] >>
       ELSE (IF e.bg THEN << [c EXCEPT !.type = "RECTANGLE"] >> ELSE << >>)
            \o (IF e.border > 0 THEN << [c EXCEPT !.type = "BORDER"] >> ELSE << >>)

\* a rank that paints the elements declared last first
PaintRank_reversed(t, i) == Len(t) - i

\* paint rank of an element: 0 in the flow, else 1 + the z-index of its floating root
PaintRank(t, i) == IF InFloating(t, i) THEN 1 + t[FloatRoot(t, i)].zIndex ELSE 0

RECURSIVE EmitFrom(_, _, _)
EmitFrom(t, bb, todo) ==
    IF todo = {} THEN << >>
    ELSE LET i == CHOOSE k \in todo : \A m \in todo :
                      \/ PaintRank(t, k) < PaintRank(t, m)
                      \/ PaintRank(t, k) = PaintRank(t, m) /\ k <= m
         IN CommandsOf(t, bb, i) \o EmitFrom(t, bb, todo \ {i})

Clay_GetRenderCommands(t, bb) == EmitFrom(t, bb, 1..Len(t))

\* the element hash map of the frame: declared id -> bounding box
ElementBoxes(t, bb) ==
    LET named == {i \in 1..Len(t) : t[i].kind = "box"}
    IN [id \in {t[i].id : i \in named} |-> bb[CHOOSE i \in named : t[i].id = id]]

Clay_EndLayout(t) ==
    LET bb == [i \in 1..Len(t) |-> BoundingBox(t, i)]
    IN [boxes |-> ElementBoxes(t, bb), cmds |-> Clay_GetRenderCommands(t, bb)]

ZeroBox == [x |-> 0, y |-> 0, width |-> 0, height |-> 0]

Clay_GetElementData(id, fr) ==
    IF id \in DOMAIN fr.boxes
    THEN [found |-> TRUE, boundingBox |-> fr.boxes[id]]
    ELSE [found |-> FALSE, boundingBox |-> ZeroBox]

render_clay_with_cairo(open, w, tbuf, sbuf, ptr) ==
    Clay_EndLayout(BarTree(open, w, tbuf, sbuf, ptr))

-----------------------------------------------------------------------------
(* The painting half of render_clay_with_cairo: cairo_paint with a          *)
(* transparent source clears the surface, then the loop over the commands   *)
(* fills a rectangle, strokes a border or shows a text. The text branch     *)
(* allocates first (malloc; in the Pango variant also the layout) and       *)
(* leaves the switch when the allocation fails; allocOk tells whether the   *)
(* allocations of the frame cycle succeed.                                  *)

AllocOutcomes == BOOLEAN

PaintOp(cmd, k, allocOk) ==
    IF cmd.type = "RECTANGLE" THEN << [op |-> "fill", cmd |-> k] >>
    ELSE IF cmd.type = "BORDER" THEN << [op |-> "stroke", cmd |-> k] >>
    ELSE IF cmd.type = "TEXT"
    THEN (IF allocOk THEN << [op |-> "show_text", cmd |-> k] >> ELSE << >>)
    ELSE << >>

RECURSIVE PaintFrom(_, _, _)
PaintFrom(cmds, k, allocOk) ==
    IF k > Len(cmds) THEN << >>
    ELSE PaintOp(cmds[k], k, allocOk) \o PaintFrom(cmds, k + 1, allocOk)

\* a painter that does not clear the surface first
Paint_noClear(cmds, allocOk) == PaintFrom(cmds, 1, allocOk)

Paint(cmds, allocOk) ==
    << [op |-> "clear", cmd |-> 0] >> \o PaintFrom(cmds, 1, allocOk)

-----------------------------------------------------------------------------
(* point_in_element: look the element up under the id hashed from the       *)
(* run-time name, then compare the point with the box truncated to int.     *)

\* the C conversion (int)f of a float held in tenths: truncation toward zero
CastInt(u) == IF u >= 0 THEN u \div PxUnits ELSE -((-u) \div PxUnits)

\* the return expression: both corners are cast to int before comparing
PointInBox(bb, px, py) ==
    /\ px >= CastInt(bb.x) /\ px < CastInt(bb.x + bb.width)
    /\ py >= CastInt(bb.y) /\ py < CastInt(bb.y + bb.height)

point_in_element_foundInverted(id_str, px, py, fr, ptr, junk) ==
    LET ed == Clay_GetElementData(CLAY_ID_pointer(id_str, ptr, junk), fr)
    IN IF ed.found THEN FALSE ELSE TRUE

point_in_element(id_str, px, py, fr, ptr, junk) ==
    LET ed == Clay_GetElementData(CLAY_ID_pointer(id_str, ptr, junk), fr)
    IN IF ~ed.found THEN FALSE ELSE PointInBox(ed.boundingBox, px, py)

-----------------------------------------------------------------------------
(* Text sources *)

Chars_clock_a == <<"2","0","2","6","-","1","1","-","0","4"," ",
                   "1","0",":","0","0",":","0","0">>
Chars_clock_b == <<"1","9","9","9","-","1","2","-","3","1"," ",
                   "2","3",":","5","9",":","5","9">>
Clocks == {Chars_clock_a, Chars_clock_b}

Name_empty == << >>
Name_short == <<"o","k">>
Name_long == <<"b","a","t","t","e","r","y"," ","8","0","%">>
RootNames == {Name_empty, Name_short, Name_long}
\* what XGetWMName can give: a name, or nothing
Fetches == {[ok |-> TRUE, value |-> n] : n \in RootNames}
           \cup {[ok |-> FALSE, value |-> << >>]}

(* A static buffer is held as the bytes up to the last one ever written;    *)
(* the bytes after them are still the zeroes the buffer was initialised to. *)
ZeroBuffer == << >>

\* memcpy(buf, src, Len(src)); buf[Len(src)] = NUL: the bytes after it stay
StoreString(buf, src) ==
    [i \in 1..(IF Len(buf) > Len(src) + 1 THEN Len(buf) ELSE Len(src) + 1) |->
        IF i <= Len(src) THEN src[i] ELSE IF i = Len(src) + 1 THEN NUL ELSE buf[i]]

update_time(buf, clock) == StoreString(buf, clock)

\* a refresh that copies the whole name, whatever its length
update_root_status_noClamp(buf, tprop) ==
    IF tprop.ok
    THEN StoreString(buf, tprop.value)
    ELSE StoreString(buf, << >>)

update_root_status(buf, tprop) ==
    IF tprop.ok
    THEN LET len == IF Len(tprop.value) > STATUSBUF_SIZE - 1 THEN STATUSBUF_SIZE - 1
                    ELSE Len(tprop.value)
         IN StoreString(buf, SubSeq(tprop.value, 1, len))
    ELSE StoreString(buf, << >>)

-----------------------------------------------------------------------------
(* spawn_cmd: fork, and in the child setsid and execvp; the parent gets the *)
(* child's pid, or -1 when fork fails.                                      *)

Argv_xterm == << "xterm" >>
Argv_xdg_open == << "xdg-open", "." >>

spawn_cmd(argv, forkOk) == [argv |-> argv, pid |-> IF forkOk THEN 1 ELSE -1]

-----------------------------------------------------------------------------
(* The ButtonPress branch of main's event loop. The result names the new    *)
(* dropdown flag, the number of render_clay_with_cairo calls and the        *)
(* spawn_cmd calls made.                                                    *)

Button1 == 1

\* a Pango handler that paints a frame for a press of another button
HandleButtonPress_otherButtonRenders(var, button, mx, my, open, fr, ptr, junk, forkOk) ==
    IF var = "pango" /\ button # Button1
    THEN [open |-> open, renders |-> 1, spawned |-> << >>]
    ELSE IF point_in_element(S_menu_toggle, mx, my, fr, ptr, junk)
    THEN [open |-> ~open, renders |-> 1, spawned |-> << >>]
    ELSE IF open
    THEN IF point_in_element(S_item1, mx, my, fr, ptr, junk)
         THEN [open |-> FALSE, renders |-> 1,
               spawned |-> << spawn_cmd(Argv_xterm, forkOk) >>]
         ELSE IF point_in_element(S_item2, mx, my, fr, ptr, junk)
         THEN [open |-> FALSE, renders |-> 1,
               spawned |-> << spawn_cmd(Argv_xdg_open, forkOk) >>]
         ELSE [open |-> FALSE, renders |-> 1, spawned |-> << >>]
    ELSE [open |-> open, renders |-> 0, spawned |-> << >>]

\* the handler without the "else if (dropdown_open)" guard
HandleButtonPress_noOpenGuard(var, button, mx, my, open, fr, ptr, junk, forkOk) ==
    IF var = "pango" /\ button # Button1
    THEN [open |-> open, renders |-> 0, spawned |-> << >>]
    ELSE IF point_in_element(S_menu_toggle, mx, my, fr, ptr, junk)
    THEN [open |-> ~open, renders |-> 1, spawned |-> << >>]
    ELSE IF point_in_element(S_item1, mx, my, fr, ptr, junk)
    THEN [open |-> FALSE, renders |-> 1,
          spawned |-> << spawn_cmd(Argv_xterm, forkOk) >>]
    ELSE IF point_in_element(S_item2, mx, my, fr, ptr, junk)
    THEN [open |-> FALSE, renders |-> 1,
          spawned |-> << spawn_cmd(Argv_xdg_open, forkOk) >>]
    ELSE [open |-> FALSE, renders |-> 1, spawned |-> << >>]

HandleButtonPress(var, button, mx, my, open, fr, ptr, junk, forkOk) ==
    IF var = "pango" /\ button # Button1
    THEN [open |-> open, renders |-> 0, spawned |-> << >>]
    ELSE IF point_in_element(S_menu_toggle, mx, my, fr, ptr, junk)
    THEN [open |-> ~open, renders |-> 1, spawned |-> << >>]
    ELSE IF open
    THEN IF point_in_element(S_item1, mx, my, fr, ptr, junk)
         THEN [open |-> FALSE, renders |-> 1,
               spawned |-> << spawn_cmd(Argv_xterm, forkOk) >>]
         ELSE IF point_in_element(S_item2, mx, my, fr, ptr, junk)
         THEN [open |-> FALSE, renders |-> 1,
               spawned |-> << spawn_cmd(Argv_xdg_open, forkOk) >>]
         ELSE [open |-> FALSE, renders |-> 1, spawned |-> << >>]
    ELSE [open |-> open, renders |-> 0, spawned |-> << >>]

\* a guard that accepts every size change
ConfigureAccepted_always(var, width, w) == TRUE

\* a guard that accepts only a growing width
ConfigureAccepted_onlyGrow(var, width, w) ==
    width > w /\ (var = "pango" => width > 0)

\* the ConfigureNotify guard: the Pango variant also requires width > 0
ConfigureAccepted(var, width, w) ==
    width # w /\ (var = "pango" => width > 0)

-----------------------------------------------------------------------------
(* Inputs *)

DisplayWidths == {1280, 1920}
ConfigureWidths == {0, 100, 250, 1280}
\* click points: the corners of the toggle box (6..65 x 6..19), their outside
\* neighbours, a point in each dropdown item and a point in the centre area
ClickPoints == { <<6, 6>>, <<65, 19>>, <<5, 6>>, <<6, 5>>, <<66, 19>>, <<65, 20>>,
                 <<20, 40>>, <<20, 70>>, <<400, 10>> }
Buttons == {1, 3}

NoEvent == [type |-> "none", x |-> 0, y |-> 0, button |-> 0, width |-> 0,
            renders |-> 0, spawned |-> << >>]

-----------------------------------------------------------------------------
(* main: the state after the initial update_time, update_root_status and    *)
(* render_clay_with_cairo, then the branches of the event loop, each for    *)
(* one event or one periodic update and for given outcomes of what the      *)
(* environment decides.                                                     *)

\* the shaped clock is not running
NoClock == [timebuf |-> << >>, wattr |-> <<0, 0>>, surf |-> <<0, 0>>,
            queue |-> << >>, due |-> FALSE, resized |-> FALSE, by |-> "none"]

\* create_mask_from_a8 has not been called
NoMask == [present |-> FALSE, w |-> 0, h |-> 0, pattern |-> "clear",
           callocOk |-> TRUE, pm |-> << >>]

\* the fetch of the initial update_root_status of BarAtRest
FetchedAtRest == [ok |-> TRUE, value |-> Name_short]

\* measure_text_fn has not been called
NotMeasured ==
    [var |-> "none", text |-> << >>, cfg |-> NoConfig,
     dims |-> [width |-> 0, height |-> 0],
     ctxOk |-> TRUE, layoutOk |-> TRUE, allocOk |-> TRUE,
     prev |-> [var |-> "none", text |-> << >>, cfg |-> NoConfig,
               dims |-> [width |-> 0, height |-> 0]]]

\* the parent is not inside spawn_cmd
NotForked == [argv |-> << >>, pid |-> 0]

\* no function is being called on its own
NoCalls ==
    /\ children = << >>
    /\ forked = NotForked
    /\ measured = NotMeasured
    /\ fetched = FetchedAtRest
    /\ held = << >>
    /\ mask = NoMask
    /\ shaped = NoClock

\* a start with the dropdown flag set
Init_dropdownOpen ==
    /\ variant \in {"cairo", "pango"}
    /\ ptr_size \in {4, 8}
    /\ dropdown_open = TRUE
    /\ screen_w \in DisplayWidths
    /\ \E clock \in Clocks :
          timebuf = update_time(ZeroBuffer, clock)
    /\ \E tprop \in Fetches :
          statusbuf = update_root_status(ZeroBuffer, tprop)
    /\ frame = render_clay_with_cairo(dropdown_open, screen_w, timebuf, statusbuf,
                                      ptr_size)
    /\ surface = Paint(frame.cmds, TRUE)
    /\ launched = << >>
    /\ last = NoEvent
    /\ pending = 0 /\ pc = "poll" /\ due = FALSE
    /\ NoCalls

Init ==
    /\ variant \in {"cairo", "pango"}
    /\ ptr_size \in {4, 8}
    /\ dropdown_open = FALSE
    /\ screen_w \in DisplayWidths
    /\ \E clock \in Clocks :
          timebuf = update_time(ZeroBuffer, clock)
    /\ \E tprop \in Fetches :
          statusbuf = update_root_status(ZeroBuffer, tprop)
    /\ frame = render_clay_with_cairo(dropdown_open, screen_w, timebuf, statusbuf,
                                      ptr_size)
    /\ surface = Paint(frame.cmds, TRUE)
    /\ launched = << >>
    /\ last = NoEvent
    /\ pending = 0 /\ pc = "poll" /\ due = FALSE
    /\ NoCalls

\* an Expose branch that also toggles the dropdown
ExposeBranch_togglesDropdown(allocOk) ==
    /\ dropdown_open' = ~dropdown_open
    /\ frame' = render_clay_with_cairo(dropdown_open', screen_w, timebuf, statusbuf,
                                       ptr_size)
    /\ surface' = Paint(frame'.cmds, allocOk)
    /\ last' = [NoEvent EXCEPT !.type = "Expose", !.renders = 1]
    /\ UNCHANGED <<variant, ptr_size, screen_w, timebuf, statusbuf, launched>>

ExposeBranch(allocOk) ==
    /\ frame' = render_clay_with_cairo(dropdown_open, screen_w, timebuf, statusbuf,
                                       ptr_size)
    /\ surface' = Paint(frame'.cmds, allocOk)
    /\ last' = [NoEvent EXCEPT !.type = "Expose", !.renders = 1]
    /\ UNCHANGED <<variant, ptr_size, dropdown_open, screen_w, timebuf,
                   statusbuf,
                   launched>>

\* a ConfigureNotify branch that stores the width and does not render
ConfigureNotifyBranch_noRender(width, allocOk) ==
    LET ok == ConfigureAccepted(variant, width, screen_w)
    IN /\ screen_w' = IF ok THEN width ELSE screen_w
       /\ last' = [NoEvent EXCEPT !.type = "ConfigureNotify", !.width = width]
       /\ UNCHANGED <<variant, ptr_size, dropdown_open, timebuf, statusbuf,
                      frame,
                      surface, launched>>

ConfigureNotifyBranch(width, allocOk) ==
    LET ok == ConfigureAccepted(variant, width, screen_w)
    IN /\ screen_w' = IF ok THEN width ELSE screen_w
       /\ frame' = IF ok
                   THEN render_clay_with_cairo(dropdown_open, width, timebuf,
                                               statusbuf, ptr_size)
                   ELSE frame
       /\ surface' = IF ok THEN Paint(frame'.cmds, allocOk) ELSE surface
       /\ last' = [NoEvent EXCEPT !.type = "ConfigureNotify", !.width = width,
                                  !.renders = IF ok THEN 1 ELSE 0]
       /\ UNCHANGED <<variant, ptr_size, dropdown_open, timebuf, statusbuf,
                      launched>>

ButtonPressBranch(pt, button, junk, forkOk, allocOk) ==
    LET mx == pt[1]
        my == pt[2]
        r == HandleButtonPress(variant, button, mx, my, dropdown_open, frame,
                               ptr_size, junk, forkOk)
    IN /\ Len(launched) + Len(r.spawned) <= MaxLaunches
       /\ dropdown_open' = r.open
       /\ launched' = launched \o r.spawned
       /\ frame' = IF r.renders > 0
                   THEN render_clay_with_cairo(r.open, screen_w, timebuf,
                                               statusbuf, ptr_size)
                   ELSE frame
       /\ surface' = IF r.renders > 0 THEN Paint(frame'.cmds, allocOk) ELSE surface
       /\ last' = [NoEvent EXCEPT !.type = "ButtonPress", !.x = mx, !.y = my,
                                  !.button = button, !.renders = r.renders,
                                  !.spawned = r.spawned]
       /\ UNCHANGED <<variant, ptr_size, screen_w, timebuf, statusbuf>>

ButtonReleaseBranch ==
    /\ last' = [NoEvent EXCEPT !.type = "ButtonRelease"]
    /\ UNCHANGED <<variant, ptr_size, dropdown_open, screen_w, timebuf,
                   statusbuf,
                   frame, surface, launched>>

\* a periodic update that renders before it refreshes the texts
TickBranch_renderBeforeRefresh(clock, tprop, allocOk) ==
    /\ timebuf' = update_time(timebuf, clock)
    /\ statusbuf' = update_root_status(statusbuf, tprop)
    /\ frame' = render_clay_with_cairo(dropdown_open, screen_w, timebuf, statusbuf,
                                       ptr_size)
    /\ surface' = Paint(frame'.cmds, allocOk)
    /\ last' = [NoEvent EXCEPT !.type = "Tick", !.renders = 1]
    /\ UNCHANGED <<variant, ptr_size, dropdown_open, screen_w, launched>>

\* the periodic update: update_time, update_root_status, render_clay_with_cairo
TickBranch(clock, tprop, allocOk) ==
    /\ timebuf' = update_time(timebuf, clock)
    /\ statusbuf' = update_root_status(statusbuf, tprop)
    /\ frame' = render_clay_with_cairo(dropdown_open, screen_w, timebuf', statusbuf',
                                       ptr_size)
    /\ surface' = Paint(frame'.cmds, allocOk)
    /\ last' = [NoEvent EXCEPT !.type = "Tick", !.renders = 1]
    /\ UNCHANGED <<variant, ptr_size, dropdown_open, screen_w, launched>>

-----------------------------------------------------------------------------
(* Spec: the driver seen from idle to idle. Each step handles one event, or *)
(* makes the periodic update the loop takes when more than 0.5 s have       *)
(* elapsed; the queue and the timer are left out (loop_vars stay put), and  *)
(* so are failing allocations of the painter: surface is read by no         *)
(* handler, so what is painted changes nothing else. LoopSpec has them.     *)

Expose ==
    /\ ExposeBranch(TRUE)
    /\ UNCHANGED <<loop_vars, call_vars>>

ConfigureNotify ==
    /\ \E width \in ConfigureWidths :
          ConfigureNotifyBranch(width, TRUE)
    /\ UNCHANGED <<loop_vars, call_vars>>

ButtonPress ==
    /\ \E pt \in ClickPoints, button \in Buttons,
          junk \in (IF dropdown_open THEN JunkBytes ELSE {NUL}),
          forkOk \in (IF dropdown_open THEN BOOLEAN ELSE {TRUE}) :
          ButtonPressBranch(pt, button, junk, forkOk, TRUE)
    /\ UNCHANGED <<loop_vars, call_vars>>

ButtonRelease ==
    /\ ButtonReleaseBranch
    /\ UNCHANGED <<loop_vars, call_vars>>

Tick ==
    /\ \E clock \in Clocks, tprop \in Fetches :
          TickBranch(clock, tprop, TRUE)
    /\ UNCHANGED <<loop_vars, call_vars>>

Next == Expose \/ ConfigureNotify \/ ButtonPress \/ ButtonRelease \/ Tick

Spec == Init /\ [][Next]_vars

-----------------------------------------------------------------------------
(* LoopSpec: main's loop with its queue and its timer. The inner loop takes *)
(* events while XPending says there are any; only when the queue is empty   *)
(* does the loop read the clock, make the periodic update when more than    *)
(* 0.5 s have elapsed, and sleep 10 ms. Events arrive and time passes at    *)
(* any moment.                                                              *)

LoopWidths == {1280}
LoopClickPoints == { <<6, 6>> }
LoopFetches == {[ok |-> TRUE, value |-> Name_short], [ok |-> FALSE, value |-> << >>]}

\* the X server queues an event
XArrive ==
    /\ pending < MaxPending
    /\ pending' = pending + 1
    /\ UNCHANGED <<variant, ptr_size, dropdown_open, screen_w, timebuf,
                   statusbuf,
                   frame, launched, last, surface, pc, due>>
    /\ UNCHANGED call_vars

\* the monotonic clock passes last_time + 0.5 s
TimeElapses ==
    /\ ~due
    /\ due' = TRUE
    /\ UNCHANGED <<variant, ptr_size, dropdown_open, screen_w, timebuf,
                   statusbuf,
                   frame, launched, last, surface, pending, pc>>
    /\ UNCHANGED call_vars

\* while (XPending(dpy)) { XNextEvent(dpy, &ev); ... }
XNextEvent ==
    /\ pc = "poll" /\ pending > 0
    /\ pending' = pending - 1
    /\ UNCHANGED <<pc, due>>
    /\ UNCHANGED call_vars
    /\ \E allocOk \in AllocOutcomes :
          \/ ExposeBranch(allocOk)
          \/ \E width \in LoopWidths : ConfigureNotifyBranch(width, allocOk)
          \/ \E pt \in LoopClickPoints :
                ButtonPressBranch(pt, Button1, NUL, TRUE, allocOk)
          \/ ButtonReleaseBranch

\* XPending gives 0: the inner loop ends
XPendingEmpty ==
    /\ pc = "poll" /\ pending = 0
    /\ pc' = "timer"
    /\ UNCHANGED <<variant, ptr_size, dropdown_open, screen_w, timebuf,
                   statusbuf,
                   frame, launched, last, surface, pending, due>>
    /\ UNCHANGED call_vars

\* if (elapsed > 0.5) { last_time = now; update...; render_clay_with_cairo(); }
Periodic ==
    /\ pc = "timer"
    /\ pc' = "sleep"
    /\ UNCHANGED pending
    /\ UNCHANGED call_vars
    /\ IF due
       THEN /\ due' = FALSE
            /\ \E clock \in Clocks, tprop \in LoopFetches, allocOk \in AllocOutcomes :
                  TickBranch(clock, tprop, allocOk)
       ELSE UNCHANGED <<variant, ptr_size, dropdown_open, screen_w, timebuf,
                        statusbuf, frame, launched, last, surface, due>>

\* usleep(10000)
Sleep ==
    /\ pc = "sleep"
    /\ pc' = "poll"
    /\ UNCHANGED <<variant, ptr_size, dropdown_open, screen_w, timebuf,
                   statusbuf,
                   frame, launched, last, surface, pending, due>>
    /\ UNCHANGED call_vars

LoopNext == XArrive \/ TimeElapses \/ XNextEvent \/ XPendingEmpty \/ Periodic \/ Sleep

\* what a step of the bar's only thread (XNextEvent, XPendingEmpty, Periodic
\* or Sleep) does to the loop variables; no other step of LoopNext does it
LoopStep ==
    \/ pc = "poll" /\ pending > 0 /\ pending' = pending - 1 /\ pc' = pc
    \/ pc = "poll" /\ pending = 0 /\ pending' = pending /\ pc' = "timer"
    \/ pc = "timer" /\ pending' = pending /\ pc' = "sleep"
    \/ pc = "sleep" /\ pending' = pending /\ pc' = "poll"

\* the thread is never suspended for ever: every call it makes returns
LoopSpec == Init /\ [][LoopNext]_vars /\ WF_<<pending, pc>>(LoopStep)

-----------------------------------------------------------------------------
(* The bar at rest: one start of main (Cairo variant, 64-bit build, a       *)
(* 1280 px display), from which the specifications of single functions      *)
(* start. They leave main's loop out.                                       *)

BarAtRest ==
    /\ variant = "cairo"
    /\ ptr_size = 8
    /\ dropdown_open = FALSE
    /\ screen_w = 1280
    /\ timebuf = update_time(ZeroBuffer, Chars_clock_a)
    /\ statusbuf = update_root_status(ZeroBuffer, FetchedAtRest)
    /\ frame = render_clay_with_cairo(dropdown_open, screen_w, timebuf, statusbuf,
                                      ptr_size)
    /\ surface = Paint(frame.cmds, TRUE)
    /\ launched = << >>
    /\ last = NoEvent
    /\ pending = 0 /\ pc = "poll" /\ due = FALSE

-----------------------------------------------------------------------------
(* SpawnSpec: spawn_cmd, process by process. fork gives the parent the      *)
(* child's pid, or -1 and no child; the parent returns that value. The      *)
(* child calls setsid and execvp; execvp comes back only when the program   *)
(* cannot be executed, and then the child calls perror and _exit(127). A    *)
(* child is at the call it makes next, at "program" once execvp has         *)
(* replaced its image, or at "exited_127". pids are 1, 2, ... in the order  *)
(* of creation.                                                             *)

Argvs == {Argv_xterm, Argv_xdg_open}
ChildEnds == {"program", "exited_127"}

\* a child whose _exit is missing: it leaves the if and returns to the caller
ChildStep_noExit(at, execOk) ==
    IF at = "setsid" THEN "execvp"
    ELSE IF at = "execvp" THEN (IF execOk THEN "program" ELSE "perror")
    ELSE IF at = "perror" THEN "_exit"
    ELSE IF at = "_exit" THEN "loop"
    ELSE at

\* the call a child makes after the one it is at
ChildStep(at, execOk) ==
    IF at = "setsid" THEN "execvp"
    ELSE IF at = "execvp" THEN (IF execOk THEN "program" ELSE "perror")
    ELSE IF at = "perror" THEN "_exit"
    ELSE IF at = "_exit" THEN "exited_127"
    ELSE at

\* pid_t pid = fork();
Fork ==
    /\ forked = NotForked
    /\ Len(launched) < MaxLaunches
    /\ \E argv \in Argvs, forkOk \in BOOLEAN :
          IF forkOk
          THEN /\ children' = Append(children, [argv |-> argv, at |-> "setsid"])
               /\ forked' = [argv |-> argv, pid |-> Len(children) + 1]
          ELSE /\ children' = children
               /\ forked' = [argv |-> argv, pid |-> -1]
    /\ UNCHANGED <<still_vars, launched, loop_vars, measured, fetched, held,
                   mask, shaped>>

\* in the parent: return pid, or return -1
Return ==
    /\ forked # NotForked
    /\ launched' = Append(launched, forked)
    /\ forked' = NotForked
    /\ UNCHANGED <<still_vars, loop_vars, children, measured, fetched, held,
                   mask, shaped>>

\* a child makes its next call
ChildRuns ==
    /\ \E c \in 1..Len(children), execOk \in BOOLEAN :
          /\ children[c].at \notin ChildEnds
          /\ children' = [children EXCEPT ![c].at = ChildStep(@, execOk)]
    /\ UNCHANGED <<still_vars, launched, loop_vars, forked, measured,
                   fetched, held, mask, shaped>>

SpawnInit == BarAtRest /\ NoCalls

SpawnNext == Fork \/ Return \/ ChildRuns

SpawnSpec == SpawnInit /\ [][SpawnNext]_vars

-----------------------------------------------------------------------------
(* MeasureSpec: measure_text_fn of either variant, called with a text and a *)
(* configuration; in the Pango variant each of the three things it needs    *)
(* can be missing, and the size Pango reports is an input.                  *)

MeasureTexts == {<< >>, Name_short, Name_long, Chars_clock_a}
PangoPixelSizes == { <<0, 0>>, <<40, 15>> }

Measure ==
    /\ \E var \in {"cairo", "pango"}, text \in MeasureTexts, cfg \in TextConfigs,
          ctxOk \in BOOLEAN, layoutOk \in BOOLEAN, allocOk \in BOOLEAN,
          pixel \in PangoPixelSizes :
          /\ var = "cairo" => ctxOk /\ layoutOk /\ allocOk /\ pixel = <<0, 0>>
          /\ measured' =
                [var |-> var, text |-> text, cfg |-> cfg,
                 dims |-> IF var = "cairo"
                          THEN measure_text_fn_cairo(text, cfg)
                          ELSE measure_text_fn_pango(text, cfg, ctxOk, layoutOk,
                                                     allocOk, pixel),
                 ctxOk |-> ctxOk, layoutOk |-> layoutOk, allocOk |-> allocOk,
                 prev |-> [var |-> measured.var, text |-> measured.text,
                           cfg |-> measured.cfg, dims |-> measured.dims]]
    /\ UNCHANGED <<still_vars, launched, loop_vars, spawn_vars, fetched,
                   held, mask, shaped>>

MeasureInit == BarAtRest /\ NoCalls

MeasureNext == Measure

MeasureSpec == MeasureInit /\ [][MeasureNext]_vars

-----------------------------------------------------------------------------
(* StatusSpec: the periodic update with root-window names around the size   *)
(* of statusbuf: 511, 512 and 600 bytes, whose bytes from the 512th on      *)
(* differ from the first 511.                                               *)

LongName(n) == [i \in 1..n |-> IF i <= STATUSBUF_SIZE - 1 THEN "s" ELSE "t"]
LongNameLengths == {STATUSBUF_SIZE - 1, STATUSBUF_SIZE, STATUSBUF_SIZE + 88}
StatusFetches ==
    Fetches \cup {[ok |-> TRUE, value |-> LongName(n)] : n \in LongNameLengths}

StatusTick ==
    /\ \E clock \in Clocks, tprop \in StatusFetches :
          /\ TickBranch(clock, tprop, TRUE)
          /\ fetched' = tprop
    /\ UNCHANGED <<loop_vars, spawn_vars, measured, held, mask, shaped>>

\* main's start in either variant and build, with any of the names
StatusInit ==
    /\ variant \in {"cairo", "pango"}
    /\ ptr_size \in {4, 8}
    /\ dropdown_open = FALSE
    /\ screen_w = 1280
    /\ timebuf = update_time(ZeroBuffer, Chars_clock_a)
    /\ fetched \in StatusFetches
    /\ statusbuf = update_root_status(ZeroBuffer, fetched)
    /\ frame = render_clay_with_cairo(dropdown_open, screen_w, timebuf, statusbuf,
                                      ptr_size)
    /\ surface = Paint(frame.cmds, TRUE)
    /\ launched = << >>
    /\ last = NoEvent
    /\ pending = 0 /\ pc = "poll" /\ due = FALSE
    /\ children = << >>
    /\ forked = NotForked
    /\ measured = NotMeasured
    /\ held = << >>
    /\ mask = NoMask
    /\ shaped = NoClock

StatusNext == StatusTick

StatusSpec == StatusInit /\ [][StatusNext]_vars

-----------------------------------------------------------------------------
(* AllocSpec: the handlers with the allocations they make and release.      *)
(* held lists what has been obtained and not released, by the name of the   *)
(* pointer. A text command of the painter obtains its string copy (in the   *)
(* Pango variant a layout before it and a font description after it) and    *)
(* releases what it got; update_root_status obtains tprop.value from        *)
(* XGetWMName and then calls XFree on tprop.encoding, an Atom and not a     *)
(* pointer: that call has undefined behaviour, it returns or the process    *)
(* aborts (pc = "aborted").                                                 *)

Malloc(h, tag) == Append(h, tag)

\* release the allocation named tag obtained last
Free(h, tag) ==
    LET at == {i \in 1..Len(h) : h[i] = tag}
    IN IF at = {} THEN h
       ELSE LET k == CHOOSE i \in at : \A j \in at : j <= i
            IN SubSeq(h, 1, k - 1) \o SubSeq(h, k + 1, Len(h))

\* what the text branch can meet: every allocation succeeds, the layout is
\* not created (Pango variant), or the string copy is not allocated
TextAllocOutcomes == {"ok", "no_layout", "no_tmp"}

\* the allocations held after the text branch of the paint loop
HeldAfterText(var, h, out) ==
    IF var = "cairo"
    THEN IF out = "no_tmp" THEN h
         ELSE Free(Malloc(h, "tmp"), "tmp")
    ELSE IF out = "no_layout" THEN h
         ELSE IF out = "no_tmp" THEN Free(Malloc(h, "layout"), "layout")
         ELSE Free(Free(Free(Malloc(Malloc(Malloc(h, "layout"), "tmp"), "desc"),
                             "desc"), "tmp"), "layout")

\* the allocations held after the paint loop over the commands from k on
RECURSIVE HeldAfterPaint(_, _, _, _, _)
HeldAfterPaint(var, h, cmds, k, out) ==
    IF k > Len(cmds) THEN h
    ELSE HeldAfterPaint(var,
                        IF cmds[k].type = "TEXT" THEN HeldAfterText(var, h, out)
                        ELSE h,
                        cmds, k + 1, out)

\* the allocations held after update_root_status: the value XGetWMName
\* allocated is not released
HeldAfterStatus(h, tprop) ==
    IF tprop.ok THEN Malloc(h, "tprop.value") ELSE h

\* what XFree(tprop.encoding) can do
XFreeOutcomes == {"returns", "aborts"}

AllocExpose ==
    /\ pc # "aborted"
    /\ \E out \in TextAllocOutcomes :
          /\ variant = "cairo" => out # "no_layout"
          /\ ExposeBranch(out = "ok")
          /\ held' = HeldAfterPaint(variant, held, frame'.cmds, 1, out)
    /\ UNCHANGED <<loop_vars, spawn_vars, measured, fetched, mask, shaped>>

AllocConfigureNotify ==
    /\ pc # "aborted"
    /\ \E width \in ConfigureWidths, out \in TextAllocOutcomes :
          /\ variant = "cairo" => out # "no_layout"
          /\ ConfigureNotifyBranch(width, out = "ok")
          /\ held' = IF last'.renders > 0
                     THEN HeldAfterPaint(variant, held, frame'.cmds, 1, out)
                     ELSE held
    /\ UNCHANGED <<loop_vars, spawn_vars, measured, fetched, mask, shaped>>

AllocButtonPress ==
    /\ pc # "aborted"
    /\ \E pt \in LoopClickPoints, out \in TextAllocOutcomes :
          /\ variant = "cairo" => out # "no_layout"
          /\ ButtonPressBranch(pt, Button1, NUL, TRUE, out = "ok")
          /\ held' = IF last'.renders > 0
                     THEN HeldAfterPaint(variant, held, frame'.cmds, 1, out)
                     ELSE held
    /\ UNCHANGED <<loop_vars, spawn_vars, measured, fetched, mask, shaped>>

AllocTick ==
    /\ pc # "aborted"
    /\ \E clock \in Clocks, tprop \in LoopFetches, xfree \in XFreeOutcomes,
          out \in TextAllocOutcomes :
          /\ variant = "cairo" => out # "no_layout"
          /\ tprop.ok => Len(held) < MaxHeld
          /\ fetched' = tprop
          /\ IF tprop.ok /\ xfree = "aborts"
             THEN /\ pc' = "aborted"
                  /\ held' = HeldAfterStatus(held, tprop)
                  /\ UNCHANGED <<still_vars, launched, pending, due>>
             ELSE /\ TickBranch(clock, tprop, out = "ok")
                  /\ held' = HeldAfterPaint(variant, HeldAfterStatus(held, tprop),
                                            frame'.cmds, 1, out)
                  /\ UNCHANGED loop_vars
    /\ UNCHANGED <<spawn_vars, measured, mask, shaped>>

\* main's start in either variant, after a first update_root_status that
\* was given a name and came back
AllocInit ==
    /\ variant \in {"cairo", "pango"}
    /\ ptr_size = 8
    /\ dropdown_open = FALSE
    /\ screen_w = 1280
    /\ timebuf = update_time(ZeroBuffer, Chars_clock_a)
    /\ fetched = FetchedAtRest
    /\ statusbuf = update_root_status(ZeroBuffer, fetched)
    /\ frame = render_clay_with_cairo(dropdown_open, screen_w, timebuf, statusbuf,
                                      ptr_size)
    /\ surface = Paint(frame.cmds, TRUE)
    /\ held = HeldAfterPaint(variant, HeldAfterStatus(<< >>, fetched), frame.cmds,
                             1, "ok")
    /\ launched = << >>
    /\ last = NoEvent
    /\ pending = 0 /\ pc = "poll" /\ due = FALSE
    /\ children = << >>
    /\ forked = NotForked
    /\ measured = NotMeasured
    /\ mask = NoMask
    /\ shaped = NoClock

AllocNext == AllocExpose \/ AllocConfigureNotify \/ AllocButtonPress \/ AllocTick

AllocSpec == AllocInit /\ [][AllocNext]_vars

-----------------------------------------------------------------------------
(* The shaped clock (src/clay_bar.c:506-759), a second program in the same  *)
(* file: a window that shows the time and is shaped to the text.            *)
(*                                                                          *)
(* create_mask_from_a8: from an A8 image surface of w x h pixels, whose     *)
(* rows are stride bytes apart, to the data of a 1-bit bitmap of            *)
(* (w + 7) / 8 bytes per row, least significant bit first. The result is    *)
(* << >> for "no pixmap" (0), else the bytes handed to                      *)
(* XCreateBitmapFromData.                                                   *)

\* cairo's stride for CAIRO_FORMAT_A8: the width rounded up to 4 bytes
Stride(w) == 4 * ((w + 3) \div 4)

\* the alpha byte at an offset of the surface data, for a named picture; the
\* bytes between the end of a row and the stride are not pixels
AlphaAt(pattern, w, offset) ==
    LET x == offset % Stride(w)
        y == offset \div Stride(w)
    IN IF x >= w THEN 255
       ELSE IF pattern = "clear" THEN 0
       ELSE IF pattern = "full" THEN 255
       ELSE IF pattern = "faint" THEN 1
       ELSE IF pattern = "checker" THEN (IF (x + y) % 2 = 0 THEN 128 ELSE 0)
       ELSE IF pattern = "last_column" THEN (IF x = w - 1 THEN 255 ELSE 0)
       ELSE 0

\* bitmap[byte_index] |= (1 << bit)
OrBit(byte, bit) ==
    IF (byte \div (2 ^ bit)) % 2 = 1 THEN byte ELSE byte + 2 ^ bit

\* a loop body that counts the bits from the most significant one
SetPixel_msbFirst(bitmap, pattern, w, x, y) ==
    LET bytes_per_row == (w + 7) \div 8
        a == AlphaAt(pattern, w, y * Stride(w) + x)
        byte_index == y * bytes_per_row + (x \div 8)
        bit == 7 - (x % 8)
    IN IF a > 0
       THEN [bitmap EXCEPT ![byte_index + 1] = OrBit(@, bit)]
       ELSE bitmap

\* the body of the inner loop for pixel (x, y); bitmap[i] of the source is
\* bitmap[i + 1] here
SetPixel(bitmap, pattern, w, x, y) ==
    LET bytes_per_row == (w + 7) \div 8
        a == AlphaAt(pattern, w, y * Stride(w) + x)
        byte_index == y * bytes_per_row + (x \div 8)
        bit == x % 8
    IN IF a > 0
       THEN [bitmap EXCEPT ![byte_index + 1] = OrBit(@, bit)]
       ELSE bitmap

\* the two loops from pixel (x, y) on, row by row
RECURSIVE MaskLoop(_, _, _, _, _, _)
MaskLoop(bitmap, pattern, w, h, x, y) ==
    IF y >= h THEN bitmap
    ELSE IF x >= w THEN MaskLoop(bitmap, pattern, w, h, 0, y + 1)
    ELSE MaskLoop(SetPixel(bitmap, pattern, w, x, y), pattern, w, h, x + 1, y)

create_mask_from_a8(present, pattern, w, h, callocOk) ==
    IF ~present \/ w <= 0 \/ h <= 0 THEN << >>
    ELSE IF ~callocOk THEN << >>
    ELSE LET bytes_per_row == (w + 7) \div 8
             bitmap == [i \in 1..(bytes_per_row * h) |-> 0]
         IN MaskLoop(bitmap, pattern, w, h, 0, 0)

-----------------------------------------------------------------------------
(* MaskSpec: create_mask_from_a8 called with a surface or none, a width and *)
(* a height, one of a few pictures, and either outcome of calloc.           *)

MaskWidths == {0 - 1, 0, 1, 7, 8, 9, 17}
MaskHeights == {0 - 1, 0, 1, 2}
MaskPatterns == {"clear", "full", "faint", "checker", "last_column"}

CreateMask ==
    /\ \E present \in BOOLEAN, pattern \in MaskPatterns, w \in MaskWidths,
          h \in MaskHeights, callocOk \in BOOLEAN :
          mask' = [present |-> present, w |-> w, h |-> h, pattern |-> pattern,
                   callocOk |-> callocOk,
                   pm |-> create_mask_from_a8(present, pattern, w, h, callocOk)]
    /\ UNCHANGED <<still_vars, launched, loop_vars, spawn_vars, measured,
                   fetched,
                   held, shaped>>

MaskInit == BarAtRest /\ NoCalls

MaskNext == CreateMask

MaskSpec == MaskInit /\ [][MaskNext]_vars

-----------------------------------------------------------------------------
(* ClockSpec: the shaped clock's render / size-change loop. render_now      *)
(* computes the window size from the extents of the text, asks the server   *)
(* for the window's size and, when they differ, resizes the window and the  *)
(* surface; the server then sends a ConfigureNotify with the new size.      *)
(* main handles Expose and ConfigureNotify events while there are any, and  *)
(* only then, every 60 s, takes a new text and renders. The window is       *)
(* override-redirect, so the server applies a resize as requested.          *)

H_PADDING == 7
V_PADDING == 3

\* the font's metrics, which the display decides: te.width is CharAdvance
\* for each character (monospace), fe.height is FontHeight
CharAdvance == 11
FontHeight == 21

\* XCreateWindow(dpy, rootwin, 0, 0, 200, 50, ...)
CreatedSize == <<200, 50>>

\* values of strftime(timebuf, ..., "%a/%-d %I:%M%p", &tm)
Time_a == <<"W","e","d","/","4"," ","1","0",":","0","0","A","M">>
Time_b == <<"W","e","d","/","4"," ","1","0",":","0","1","A","M">>
Time_c == <<"S","a","t","/","1","4"," ","1","0",":","0","0","A","M">>
ClockTexts == {Time_a, Time_b, Time_c}

\* win_w and win_h of render_now
ClockSize(text) ==
    LET text_w == Len(text) * CharAdvance
        win_h == FontHeight + 2 * V_PADDING
    IN << text_w + 2 * H_PADDING, IF win_h < 1 THEN 1 ELSE win_h >>

ExposeEvent == [type |-> "Expose", width |-> 0, height |-> 0]
ConfigureEvent(size) == [type |-> "ConfigureNotify", width |-> size[1],
                         height |-> size[2]]

ensure_surface_size(c, w, h) == [c EXCEPT !.surf = <<w, h>>]

\* a render_now that resizes the window whatever its size is
render_now_alwaysResizes(c, by) ==
    LET win == ClockSize(c.timebuf)
    IN [ensure_surface_size(c, win[1], win[2])
            EXCEPT !.wattr = win,
                   !.queue = Append(@, ConfigureEvent(win)),
                   !.resized = TRUE, !.by = by]

\* render_now, called for the reason by
render_now(c, by) ==
    LET win == ClockSize(c.timebuf)
    IN IF c.wattr # win
       THEN [ensure_surface_size(c, win[1], win[2])
                EXCEPT !.wattr = win,
                       !.queue = Append(@, ConfigureEvent(win)),
                       !.resized = TRUE, !.by = by]
       ELSE [c EXCEPT !.resized = FALSE, !.by = by]

\* the server queues an Expose
ClockExposed ==
    /\ Len(shaped.queue) < MaxClockQueue
    /\ shaped' = [shaped EXCEPT !.queue = Append(@, ExposeEvent)]
    /\ UNCHANGED <<still_vars, launched, loop_vars, spawn_vars, measured, fetched,
                   held, mask>>

\* while (XPending(dpy)) { XNextEvent(dpy, &ev); ... }
ClockEvent ==
    /\ shaped.queue # << >>
    /\ LET ev == Head(shaped.queue)
           c == [shaped EXCEPT !.queue = Tail(@)]
       IN shaped' = IF ev.type = "Expose" THEN render_now(c, "Expose")
                    ELSE IF ev.width > 0 /\ ev.height > 0
                    THEN render_now(ensure_surface_size(c, ev.width, ev.height),
                                    "ConfigureNotify")
                    ELSE c
    /\ UNCHANGED <<still_vars, launched, loop_vars, spawn_vars, measured, fetched,
                   held, mask>>

\* REFRESH_INTERVAL (60 s) has elapsed since the last update
ClockTimeElapses ==
    /\ ~shaped.due
    /\ shaped' = [shaped EXCEPT !.due = TRUE]
    /\ UNCHANGED <<still_vars, launched, loop_vars, spawn_vars, measured, fetched,
                   held, mask>>

\* if (elapsed >= REFRESH_INTERVAL) { last = now; update_time(); render_now(); }
ClockTick ==
    /\ shaped.queue = << >>
    /\ shaped.due
    /\ \E text \in ClockTexts :
          shaped' = render_now([shaped EXCEPT !.timebuf = text, !.due = FALSE],
                               "tick")
    /\ UNCHANGED <<still_vars, launched, loop_vars, spawn_vars, measured, fetched,
                   held, mask>>

\* main up to the loop: update_time, ensure_surface_size(200, 50), render_now
ClockInit ==
    /\ BarAtRest
    /\ children = << >> /\ forked = NotForked
    /\ measured = NotMeasured
    /\ fetched = FetchedAtRest
    /\ held = << >>
    /\ mask = NoMask
    /\ \E text \in ClockTexts :
          shaped = render_now([timebuf |-> text, wattr |-> CreatedSize,
                               surf |-> CreatedSize, queue |-> << >>,
                               due |-> FALSE, resized |-> FALSE,
                               by |-> "start"], "start")

ClockNext == ClockExposed \/ ClockTimeElapses \/ ClockEvent \/ ClockTick

\* XNextEvent returns when an event is queued
ClockSpec == ClockInit /\ [][ClockNext]_vars /\ WF_shaped(ClockEvent)

-----------------------------------------------------------------------------
(* Properties *)

HitNames == {S_menu_toggle, S_item1, S_item2}

\* the half-open containment rule on the box itself, for a point in pixels
InBoxPx(bb, px, py) ==
    /\ bb.x <= Px(px) /\ Px(px) < bb.x + bb.width
    /\ bb.y <= Px(py) /\ Px(py) < bb.y + bb.height

\* the box the builder declared for a name in the last resolved frame
DeclaredIn(fr, name) == CLAY_ID_literal(name) \in DOMAIN fr.boxes
DeclaredBox(fr, name) == fr.boxes[CLAY_ID_literal(name)]

\* the step handles a button press that the variant dispatches as a click
ClickStep == last'.type = "ButtonPress" /\ (variant = "pango" => last'.button = Button1)

ClickInToggle == ClickStep /\ InBoxPx(DeclaredBox(frame, S_menu_toggle), last'.x, last'.y)

HasText(fr, slice) ==
    \E k \in 1..Len(fr.cmds) :
        fr.cmds[k].type = "TEXT" /\ fr.cmds[k].stringContents = slice

HasItemTexts(fr) == HasText(fr, S_Open_xterm) /\ HasText(fr, S_Show_files)

(* C1: every click whose point lies inside the menu toggle's box of the     *)
(* last resolved frame flips the dropdown flag and runs exactly one frame   *)
(* cycle, whether the dropdown was open or closed.                          *)
C1_ToggleClickFlips ==
    [][ClickInToggle => (dropdown_open' = ~dropdown_open /\ last'.renders = 1)]_vars

(* C4: with the dropdown closed, a click that misses the menu toggle        *)
(* changes neither the flag, the width, the clock nor the status text,      *)
(* launches nothing and runs no frame cycle.                                *)
C4_ClosedMissIsNoOp ==
    [][(ClickStep /\ ~dropdown_open /\ ~ClickInToggle) =>
            /\ dropdown_open' = dropdown_open
            /\ screen_w' = screen_w
            /\ timebuf' = timebuf
            /\ statusbuf' = statusbuf
            /\ launched' = launched
            /\ frame' = frame
            /\ last'.renders = 0
            /\ last'.spawned = << >>]_vars

\* a click on the place of item1 was handled with the dropdown closed
C4_Witness ==
    /\ last.type = "ButtonPress" /\ last.button = Button1
    /\ last.x = 20 /\ last.y = 40
    /\ ~dropdown_open
    /\ ~InBoxPx(DeclaredBox(frame, S_menu_toggle), last.x, last.y)

(* C6: timer ticks, size changes, exposes and button releases leave the     *)
(* dropdown flag unchanged.                                                 *)
C6_OnlyClicksChangeFlag ==
    [][last'.type \in {"Tick", "ConfigureNotify", "Expose", "ButtonRelease"} =>
            dropdown_open' = dropdown_open]_vars

\* an expose was handled and rendered a frame
C6_Witness == last.type = "Expose" /\ last.renders = 1

(* C7: for an element present in the last frame, the hit test is true       *)
(* exactly when the point is inside the element's box, half-open on both    *)
(* axes.                                                                    *)
C7_HitTestIsContainment ==
    \A name \in HitNames : \A pt \in ClickPoints : \A junk \in JunkBytes :
        DeclaredIn(frame, name) =>
            (point_in_element(name, pt[1], pt[2], frame, ptr_size, junk)
                <=> InBoxPx(DeclaredBox(frame, name), pt[1], pt[2]))

(* C8: the id the hit tester derives from a name at run time is the id the  *)
(* builder declared for that name, so the hit tester finds the element      *)
(* whenever it is part of the last resolved frame.                          *)
C8_RuntimeIdIsDeclaredId ==
    \A name \in HitNames : \A junk \in JunkBytes :
        /\ CLAY_ID_pointer(name, ptr_size, junk) = CLAY_ID_literal(name)
        /\ DeclaredIn(frame, name) =>
              Clay_GetElementData(CLAY_ID_pointer(name, ptr_size, junk), frame).found

(* C9: the hit test is false for every point when the identifier is absent  *)
(* from the last resolved frame; with the dropdown closed the hit tests of  *)
(* item1 and item2 are false for every point.                               *)
C9_AbsentIsNoHit ==
    \A name \in HitNames : \A pt \in ClickPoints : \A junk \in JunkBytes :
        (\/ ~Clay_GetElementData(CLAY_ID_pointer(name, ptr_size, junk), frame).found
         \/ (~dropdown_open /\ name \in {S_item1, S_item2}))
            => ~point_in_element(name, pt[1], pt[2], frame, ptr_size, junk)

\* a click on the place of item2 was handled while item2 was not in the frame
C9_Witness ==
    /\ last.type = "ButtonPress" /\ last.x = 20 /\ last.y = 70
    /\ ~DeclaredIn(frame, S_item2)
    /\ last.renders = 0

(* C10: the last emitted command sequence holds the two item texts exactly  *)
(* when the dropdown flag is open, and a toggle click from closed makes     *)
(* them appear in the next frame.                                           *)
C10_ItemTextsFollowFlag ==
    [][/\ HasItemTexts(frame') <=> dropdown_open'
       /\ (ClickInToggle /\ ~dropdown_open) => HasItemTexts(frame')]_vars

\* the characters of a buffer up to, and not including, its terminator
CString(buf) ==
    LET n == CHOOSE k \in 1..Len(buf) :
                 buf[k] = NUL /\ \A j \in 1..(k - 1) : buf[j] # NUL
    IN SubSeq(buf, 1, n - 1)

\* the Text commands of a frame that lie inside the box declared for a name
\* (the bar's text leaves are the only children of their boxes)
TextCmds(fr, name) ==
    {k \in 1..Len(fr.cmds) :
        /\ fr.cmds[k].type = "TEXT"
        /\ BarTree(TRUE, 0, ZeroBuffer, ZeroBuffer, ptr_size)[fr.cmds[k].el].parent # 0
        /\ BarTree(TRUE, 0, ZeroBuffer, ZeroBuffer, ptr_size)[
              BarTree(TRUE, 0, ZeroBuffer, ZeroBuffer, ptr_size)[fr.cmds[k].el].parent
           ].id = CLAY_ID_literal(name)}

\* the step handles a size change that the variant's guard accepts
ResizeStep ==
    /\ last'.type = "ConfigureNotify"
    /\ last'.width # screen_w
    /\ (variant = "pango" => last'.width > 0)

\* a child box lies within its parent's box along the x axis
WithinX(child, parent) ==
    /\ child.x >= parent.x
    /\ child.x + child.width <= parent.x + parent.width

C14_SizingConservation ==
    screen_w >= 250 =>
        /\ DeclaredBox(frame, S_left).width + DeclaredBox(frame, S_center).width
              = DeclaredBox(frame, S_root).width
        /\ DeclaredBox(frame, S_menu_toggle).width + DeclaredBox(frame, S_time_text).width
              = DeclaredBox(frame, S_left).width - 2 * Px(6) - Px(6)

(* C14, amended: in every resolved frame whose bar width is at least 250,   *)
(* the widths of left and center add up to the width of root; the widths of *)
(* menu_toggle and time_text add up to 230, two pixels less than the width  *)
(* of left minus its padding on both sides minus the gap.                   *)
C14_SizingConservationRoot ==
    screen_w >= 250 =>
        /\ DeclaredBox(frame, S_left).width + DeclaredBox(frame, S_center).width
              = DeclaredBox(frame, S_root).width
        /\ DeclaredBox(frame, S_menu_toggle).width + DeclaredBox(frame, S_time_text).width
              = Px(230)
        /\ DeclaredBox(frame, S_menu_toggle).width + DeclaredBox(frame, S_time_text).width
              = DeclaredBox(frame, S_left).width - 2 * Px(6) - Px(6) - Px(2)

\* a frame was resolved for a bar of width 1920: 250 + 1670
C14_Witness ==
    /\ screen_w = 1920
    /\ DeclaredBox(frame, S_left).width = Px(250)
    /\ DeclaredBox(frame, S_center).width = Px(1670)
    /\ DeclaredBox(frame, S_menu_toggle).width = Px(60)
    /\ DeclaredBox(frame, S_time_text).width = Px(170)

(* C15: in every frame the Text command of the clock carries exactly the    *)
(* clock string of the last refresh and the Text command of the status      *)
(* exactly the status string of the last refresh, up to the terminator,     *)
(* each with font size 12.                                                  *)
C15_TextCarriesFullString ==
    /\ Cardinality(TextCmds(frame, S_time_text)) = 1
    /\ \A k \in TextCmds(frame, S_time_text) :
          /\ frame.cmds[k].stringContents = CString(timebuf)
          /\ frame.cmds[k].fontSize = 12
    /\ Cardinality(TextCmds(frame, S_center)) = 1
    /\ \A k \in TextCmds(frame, S_center) :
          /\ frame.cmds[k].stringContents = CString(statusbuf)
          /\ frame.cmds[k].fontSize = 12

(* C16: when the status text is the empty string, the frame has one Text    *)
(* command for the status, with content of length zero and a box of width   *)
(* zero that is centered in the center container.                           *)
C16_EmptyStatusIsEmptyText ==
    CString(statusbuf) = << >> =>
        /\ Cardinality(TextCmds(frame, S_center)) = 1
        /\ \A k \in TextCmds(frame, S_center) :
              /\ Len(frame.cmds[k].stringContents) = 0
              /\ frame.cmds[k].boundingBox.width = 0
              /\ 2 * frame.cmds[k].boundingBox.x + frame.cmds[k].boundingBox.width
                    = 2 * DeclaredBox(frame, S_center).x
                      + DeclaredBox(frame, S_center).width

(* C17: a timer tick refreshes the clock and the status before it runs the  *)
(* frame cycle, so the frame of a tick shows the refreshed clock string and *)
(* the refreshed status string; the tick changes neither the dropdown flag  *)
(* nor the bar width.                                                       *)
C17_TickShowsRefreshedTexts ==
    [][last'.type = "Tick" =>
          /\ last'.renders = 1
          /\ \A k \in TextCmds(frame', S_time_text) :
                frame'.cmds[k].stringContents = CString(timebuf')
          /\ \A k \in TextCmds(frame', S_center) :
                frame'.cmds[k].stringContents = CString(statusbuf')
          /\ dropdown_open' = dropdown_open
          /\ screen_w' = screen_w]_vars

CurrentTree == BarTree(dropdown_open, screen_w, timebuf, statusbuf, ptr_size)

\* the indices of the commands a frame holds for element i of the tree
CmdsOfEl(fr, i) == {k \in 1..Len(fr.cmds) : fr.cmds[k].el = i}

C22_FrameDependsOnTextsOnly ==
    frame = render_clay_with_cairo(dropdown_open, screen_w,
                                   StoreString(ZeroBuffer, CString(timebuf)),
                                   StoreString(ZeroBuffer, CString(statusbuf)),
                                   ptr_size)

(* C24: the dropdown flag is closed at process start, and the first frame,  *)
(* rendered before any event is handled, holds no dropdown, item1 or item2  *)
(* element and no command of theirs.                                        *)
C24_StartsClosed ==
    last = NoEvent =>
        /\ ~dropdown_open
        /\ \A name \in {S_dropdown, S_item1, S_item2} :
              /\ ~DeclaredIn(frame, name)
              /\ \A k \in 1..Len(frame.cmds) :
                    frame.cmds[k].id # CLAY_ID_literal(name)
        /\ ~HasText(frame, S_Open_xterm)
        /\ ~HasText(frame, S_Show_files)

\* the state before any event, with the first frame rendered
C24_Witness ==
    /\ last = NoEvent
    /\ DeclaredIn(frame, S_root) /\ DeclaredIn(frame, S_menu_toggle)
    /\ HasText(frame, S_Menu)

(* C25: whenever the driver is idle, the last resolved frame is the one     *)
(* built from the current dropdown flag, bar width, clock text and status   *)
(* text: no handler changes one of them without running a frame cycle.      *)
C25_FrameIsCurrent ==
    frame = render_clay_with_cairo(dropdown_open, screen_w, timebuf, statusbuf,
                                   ptr_size)

\* a tick stored the long status and the frame holds its slice
C25_Witness ==
    /\ last.type = "Tick"
    /\ CString(statusbuf) = Name_long
    /\ HasText(frame, CLAY_STRING_pointer(statusbuf, ptr_size))

(* C27: in every emitted frame, a container with a background emits a       *)
(* Rectangle command and one with a border a Border command, both before    *)
(* every command of its children; a text leaf emits exactly one command, a  *)
(* Text command.                                                            *)
C27_ContainerBeforeChildren ==
    \A i \in 1..Len(CurrentTree) :
        IF CurrentTree[i].kind = "text"
        THEN /\ Cardinality(CmdsOfEl(frame, i)) = 1
             /\ \A k \in CmdsOfEl(frame, i) : frame.cmds[k].type = "TEXT"
        ELSE /\ CurrentTree[i].bg =>
                   \E k \in CmdsOfEl(frame, i) : frame.cmds[k].type = "RECTANGLE"
             /\ CurrentTree[i].border > 0 =>
                   \E k \in CmdsOfEl(frame, i) : frame.cmds[k].type = "BORDER"
             /\ \A j \in 1..Len(CurrentTree) :
                   CurrentTree[j].parent = i =>
                       \A k \in CmdsOfEl(frame, i) : \A m \in CmdsOfEl(frame, j) :
                           k < m

\* a frame holds the toggle's rectangle, then its border, then its "Menu" text
C27_Witness ==
    \E k, m, n \in 1..Len(frame.cmds) :
        /\ k < m /\ m < n
        /\ frame.cmds[k].type = "RECTANGLE"
        /\ frame.cmds[k].id = CLAY_ID_literal(S_menu_toggle)
        /\ frame.cmds[m].type = "BORDER"
        /\ frame.cmds[m].id = CLAY_ID_literal(S_menu_toggle)
        /\ frame.cmds[n].type = "TEXT"
        /\ frame.cmds[n].stringContents = S_Menu

\* the indices of the commands of the three kinds the painter draws, in order
DrawableCmds(cmds) ==
    SelectSeq([k \in 1..Len(cmds) |-> k],
              LAMBDA k : cmds[k].type \in {"RECTANGLE", "BORDER", "TEXT"})

\* the command indices of the operations that follow the first one
PaintedCmds == [j \in 1..(Len(surface) - 1) |-> surface[j + 1].cmd]

\* the surface was cleared first, and only then
ClearedFirst ==
    /\ Len(surface) >= 1 /\ surface[1].op = "clear"
    /\ \A j \in 2..Len(surface) : surface[j].op # "clear"

(* C29: within each frame cycle the surface is cleared first, and then each *)
(* rectangle, border and text command is painted exactly once, in           *)
(* increasing sequence index; other kinds of command are skipped.           *)
C29_ClearThenPaintAll ==
    /\ ClearedFirst
    /\ PaintedCmds = DrawableCmds(frame.cmds)

(* C29, amended: within each frame cycle the surface is cleared first; then *)
(* the commands are painted in increasing sequence index, each rectangle    *)
(* and border command exactly once and each text command at most once (it   *)
(* is skipped when its allocation fails); other kinds of command are        *)
(* skipped.                                                                 *)
C29_ClearThenPaintInOrder ==
    /\ ClearedFirst
    /\ \A i, j \in 1..Len(PaintedCmds) : i < j => PaintedCmds[i] < PaintedCmds[j]
    /\ \A j \in 1..Len(PaintedCmds) :
          /\ PaintedCmds[j] \in 1..Len(frame.cmds)
          /\ surface[j + 1].op =
                (CASE frame.cmds[PaintedCmds[j]].type = "RECTANGLE" -> "fill"
                   [] frame.cmds[PaintedCmds[j]].type = "BORDER" -> "stroke"
                   [] frame.cmds[PaintedCmds[j]].type = "TEXT" -> "show_text"
                   [] OTHER -> "none")
    /\ \A k \in 1..Len(frame.cmds) :
          frame.cmds[k].type \in {"RECTANGLE", "BORDER"} =>
              \E j \in 1..Len(PaintedCmds) : PaintedCmds[j] = k

\* an expose was handled and every command of its frame was painted
C29_Witness ==
    /\ last.type = "Expose" /\ last.renders = 1
    /\ Len(frame.cmds) >= 7
    /\ Len(surface) = 1 + Len(frame.cmds)
    /\ \E j \in 1..Len(surface) : surface[j].op = "show_text"

(* C30: timer ticks are not starved by input: once more than the refresh    *)
(* interval has elapsed since the last refresh, the clock and the status    *)
(* are eventually refreshed and a frame is rendered, even when events keep  *)
(* arriving.                                                                *)
C30_TicksNotStarved == due ~> (~due /\ last.type = "Tick")

-----------------------------------------------------------------------------
(* Properties of spawn_cmd (SpawnSpec) *)

\* the calls of spawn_cmd that got a child, in the order they were made
RECURSIVE PidsOf(_)
PidsOf(l) ==
    IF l = << >> THEN << >>
    ELSE IF l[1].pid > 0 THEN << l[1].pid >> \o PidsOf(Tail(l))
    ELSE PidsOf(Tail(l))

(* C31: only the parent runs the loop: a child is inside spawn_cmd, at one  *)
(* of setsid, execvp, perror and _exit, or it has become the program, or it *)
(* has exited with status 127; it is never back in the caller. Each call    *)
(* returned the pid of the child it created, with the arguments given, or   *)
(* -1 and then it created no child.                                         *)
C31_ChildNeverReturns ==
    /\ \A c \in 1..Len(children) :
          children[c].at \in {"setsid", "execvp", "perror", "_exit",
                              "program", "exited_127"}
    /\ \A i \in 1..Len(launched) :
          \/ launched[i].pid = -1
          \/ /\ launched[i].pid \in 1..Len(children)
             /\ children[launched[i].pid].argv = launched[i].argv
    /\ LET returned == PidsOf(launched)
           all == IF forked.pid > 0 THEN Append(returned, forked.pid) ELSE returned
       IN all = [c \in 1..Len(children) |-> c]

\* a launch whose program could not be executed, and one whose fork failed
C31_Witness ==
    /\ Len(launched) = 2
    /\ launched[1].pid = 1 /\ children[1].at = "exited_127"
    /\ launched[2].pid = -1
    /\ Len(children) = 1

-----------------------------------------------------------------------------
(* Properties of measure_text_fn (MeasureSpec) *)

\* the font size a call works with
FontSizeOf(cfg) == IF cfg.given THEN cfg.fontSize ELSE DefaultFontSize

\* real measurement was not to be had in the last call
Unavailable ==
    \/ measured.var = "cairo"
    \/ /\ measured.var = "pango"
       /\ (~measured.ctxOk \/ ~measured.layoutOk \/ ~measured.allocOk)

(* C32: a call that cannot measure for real gives                           *)
(* width = character count x (font size x 0.55) and height = font size,     *)
(* with font size 12 when there is no configuration.                        *)
C32_FallbackEstimate ==
    Unavailable =>
        /\ measured.dims.width
              = (Len(measured.text) * FontSizeOf(measured.cfg) * 55) \div 10
        /\ measured.dims.height = Px(FontSizeOf(measured.cfg))

\* the Pango variant could not allocate the copy of a text of 11 characters
\* and was given no configuration: 11 x 6.6 = 72.6 px wide, 12 px high
C32_Witness ==
    /\ measured.var = "pango"
    /\ measured.ctxOk /\ measured.layoutOk /\ ~measured.allocOk
    /\ ~measured.cfg.given
    /\ measured.text = Name_long
    /\ measured.dims = [width |-> 726, height |-> 120]

(* C33: of two calls of the estimate with the same font size and letter     *)
(* spacing the one with the longer text is not the narrower one; the empty  *)
(* text measures width 0 when the letter spacing is zero, and its height is *)
(* the font size.                                                           *)
C33_EstimateMonotonic ==
    /\ (/\ measured.var = "cairo" /\ measured.prev.var = "cairo"
        /\ FontSizeOf(measured.cfg) = FontSizeOf(measured.prev.cfg)
        /\ measured.cfg.letterSpacing = measured.prev.cfg.letterSpacing
        /\ Len(measured.prev.text) <= Len(measured.text))
       => measured.prev.dims.width <= measured.dims.width
    /\ (measured.var = "cairo" /\ measured.text = << >>)
       => /\ measured.cfg.letterSpacing = 0 => measured.dims.width = 0
          /\ measured.dims.height = Px(FontSizeOf(measured.cfg))

\* the empty text was measured, and then a text of 19 characters
C33_Witness ==
    /\ measured.var = "cairo" /\ measured.prev.var = "cairo"
    /\ measured.cfg = measured.prev.cfg
    /\ measured.prev.text = << >> /\ measured.prev.dims.width = 0
    /\ measured.text = Chars_clock_a
    /\ measured.dims.width > measured.prev.dims.width

-----------------------------------------------------------------------------
(* Properties of ignored events (Spec) *)

\* the step leaves the bar as it was and paints no frame
NothingDone ==
    /\ UNCHANGED <<dropdown_open, screen_w, timebuf, statusbuf, frame, surface,
                   launched>>
    /\ last'.renders = 0
    /\ last'.spawned = << >>

\* the step handles a size change that the claim says is ignored
IgnoredResizeStep ==
    /\ last'.type = "ConfigureNotify"
    /\ \/ last'.width = screen_w
       \/ variant = "pango" /\ last'.width <= 0

(* C34: a size change to the current width changes nothing and paints no    *)
(* frame; the Pango variant also ignores a size change to a width <= 0, and *)
(* its bar width stays positive.                                            *)
C34_SameWidthIsNoOp ==
    [][/\ IgnoredResizeStep => NothingDone
       /\ variant = "pango" => screen_w > 0 /\ screen_w' > 0]_vars

\* the Pango variant was handed width 0 and kept its 1280 px
C34_Witness ==
    /\ variant = "pango"
    /\ last.type = "ConfigureNotify" /\ last.width = 0 /\ last.renders = 0
    /\ screen_w = 1280
    /\ DeclaredBox(frame, S_root).width = Px(1280)

(* C35: in the Pango variant a press of a button other than Button1         *)
(* changes nothing, launches nothing and paints no frame, wherever the      *)
(* point lies.                                                              *)
C35_OnlyButton1Clicks ==
    [][(/\ variant = "pango"
        /\ last'.type = "ButtonPress"
        /\ last'.button # Button1) => NothingDone]_vars

\* a press of button 3 inside the menu toggle's box, Pango variant
C35_Witness ==
    /\ variant = "pango"
    /\ last.type = "ButtonPress" /\ last.button = 3
    /\ InBoxPx(DeclaredBox(frame, S_menu_toggle), last.x, last.y)
    /\ last.renders = 0
    /\ ~dropdown_open

-----------------------------------------------------------------------------
(* Properties of update_root_status (StatusSpec) *)

\* the first n elements of a sequence, or all of it when it is shorter
Prefix(q, n) == SubSeq(q, 1, IF Len(q) > n THEN n ELSE Len(q))

(* C36: the status text is at most 511 bytes long and terminated within     *)
(* statusbuf; it is the first 511 bytes of the fetched name, the whole name *)
(* when that is shorter, and the empty string when the fetch failed.        *)
C36_StatusBounded ==
    /\ Len(statusbuf) <= STATUSBUF_SIZE
    /\ Len(CString(statusbuf)) <= STATUSBUF_SIZE - 1
    /\ \/ Len(statusbuf) < STATUSBUF_SIZE
       \/ \E i \in 1..STATUSBUF_SIZE : statusbuf[i] = NUL
    /\ CString(statusbuf) = IF fetched.ok THEN Prefix(fetched.value, STATUSBUF_SIZE - 1)
                            ELSE << >>

\* a name of 600 bytes was fetched: the text is its first 511 bytes, the
\* terminator is the last byte of statusbuf
C36_Witness ==
    /\ last.type = "Tick"
    /\ fetched.ok /\ Len(fetched.value) = STATUSBUF_SIZE + 88
    /\ Len(CString(statusbuf)) = STATUSBUF_SIZE - 1
    /\ statusbuf[STATUSBUF_SIZE] = NUL
    /\ \A i \in 1..(STATUSBUF_SIZE - 1) : statusbuf[i] = "s"

-----------------------------------------------------------------------------
(* Properties of the allocations (AllocSpec) *)

\* what the bar holds after its first update_root_status and first frame
HeldAfterFirstFrame == Len(HeldAfterStatus(<< >>, FetchedAtRest))

(* C37: when the bar is idle everything it obtained in a status refresh or  *)
(* a frame cycle has been released: it holds as many allocations as after  *)
(* the first status refresh and frame, and nothing of a frame cycle.        *)
C37_NoAccumulation ==
    pc # "aborted" =>
        /\ Len(held) = HeldAfterFirstFrame
        /\ \A i \in 1..Len(held) : held[i] \notin {"tmp", "layout", "desc"}

-----------------------------------------------------------------------------
(* Properties of create_mask_from_a8 (MaskSpec) *)

\* bit b of a byte
BitOf(byte, b) == (byte \div (2 ^ b)) % 2

\* the last call was given a surface of at least one pixel
MaskableCall == mask.present /\ mask.w > 0 /\ mask.h > 0

\* the result is the bitmap of the picture: rows of ceil(w/8) bytes, a bit
\* per pixel set exactly when its alpha is above zero, the other bits zero
IsBitmapOfPicture ==
    LET bpr == (mask.w + 7) \div 8
    IN /\ Len(mask.pm) = bpr * mask.h
       /\ \A y \in 0..(mask.h - 1) : \A x \in 0..(bpr * 8 - 1) :
             BitOf(mask.pm[y * bpr + (x \div 8) + 1], x % 8)
               = IF x < mask.w
                    /\ AlphaAt(mask.pattern, mask.w, y * Stride(mask.w) + x) > 0
                 THEN 1 ELSE 0

(* C39 as stated: for a w x h surface the result is the bitmap of the       *)
(* picture, and there is no pixmap when the surface is missing or w <= 0 or *)
(* h <= 0.                                                                  *)
C39_MaskIsBitmap ==
    mask # NoMask =>
        IF MaskableCall THEN IsBitmapOfPicture ELSE mask.pm = << >>

(* C39, amended: the same, except that there is no pixmap either when the   *)
(* bitmap cannot be allocated.                                              *)
C39_MaskIsBitmapIfAllocated ==
    mask # NoMask =>
        IF MaskableCall /\ mask.callocOk THEN IsBitmapOfPicture
        ELSE mask.pm = << >>

\* a 9 x 2 checker picture: two bytes per row, 85 and 1 in the first row,
\* 170 and 0 in the second
C39_Witness ==
    /\ mask.present /\ mask.callocOk
    /\ mask.w = 9 /\ mask.h = 2 /\ mask.pattern = "checker"
    /\ mask.pm = <<85, 1, 170, 0>>

-----------------------------------------------------------------------------
(* Properties of the shaped clock (ClockSpec) *)

\* a size-change notification is waiting in a queue
HasNotice(q) == \E i \in 1..Len(q) : q[i].type = "ConfigureNotify"

NoticePending == HasNotice(shaped.queue)

\* the step handles a size-change notification
NoticeStep ==
    /\ shaped.queue # << >>
    /\ Head(shaped.queue).type = "ConfigureNotify"
    /\ shaped'.by = "ConfigureNotify"

\* window, surface and text agree and no notification is waiting
Quiescent ==
    /\ ~NoticePending
    /\ shaped.wattr = ClockSize(shaped.timebuf)
    /\ shaped.surf = shaped.wattr

(* C38: a render that resizes the window makes it the size of the text and  *)
(* causes one notification; the render that handles the notification finds  *)
(* the sizes equal and does not resize; every notification is followed by a *)
(* state in which none is waiting and window, surface and text agree.       *)
C38_ResizeSettles ==
    /\ [][/\ NoticeStep =>
               /\ ~shaped'.resized
               /\ shaped'.wattr = shaped.wattr
               /\ ~HasNotice(shaped'.queue)
          /\ shaped'.wattr # shaped.wattr =>
               /\ shaped'.resized
               /\ shaped'.wattr = ClockSize(shaped'.timebuf)
               /\ shaped'.queue # << >>
               /\ shaped'.queue[Len(shaped'.queue)]
                     = ConfigureEvent(shaped'.wattr)]_vars
    /\ (NoticePending ~> Quiescent)

\* a tick took a longer text and resized the window; its notification has
\* been handled without another resize
C38_Witness ==
    /\ shaped.timebuf = Time_c
    /\ shaped.by = "ConfigureNotify" /\ ~shaped.resized
    /\ shaped.queue = << >>
    /\ shaped.wattr = <<168, 27>>
    /\ shaped.surf = shaped.wattr

====
